---- MODULE Spec2Model ----
(***************************************************************************)
(* batsignal (src/src/main.rs): threshold validation, charge aggregation,  *)
(* the alert state machine and the poll loop of main().                    *)
(*                                                                         *)
(* Option<T> is modelled as a sequence: None is <<>>, Some(v) is <<v>>.    *)
(* Settings keeps the fields the validator and the loop read; the message  *)
(* strings, appname, icon, notification_timeout and daemonize are only     *)
(* passed through to the notification and are left out.                    *)
(*                                                                         *)
(* Spec is main() as a whole: validation, battery discovery and the poll   *)
(* loop over a few threshold sets and readings of one or two batteries.    *)
(* SpecCycle is main() up to the first evaluation, over every combination  *)
(* of threshold levels and every percentage of one battery: it checks      *)
(* validate and the choice of the new state as functions of their inputs.  *)
(***************************************************************************)
EXTENDS Integers, Sequences, FiniteSets, TLC

VARIABLES
    settings,        \* Settings after parse_args
    batteries,       \* settings.batteries : Vec<Battery>
    charge_percent,  \* main: charge_percent
    discharging,     \* main: discharging
    state,           \* main: state (the held alert state)
    new_state,       \* main: new_state
    pc,              \* position of main()
    error,           \* the error main() ended with ("" while none)
    notified,        \* notify_cmd invocations of the current poll cycle
    cycles,          \* poll cycles started so far
    slept,           \* the waits of main() since the last update_batteries
    scen             \* observer of the default-threshold discharge scenario

vars == <<settings, batteries, charge_percent, discharging, state, new_state,
          pc, error, notified, cycles, slept, scen>>

---------------------------------------------------------------------------
(* Option<T> *)

None == <<>>
Some(v) == <<v>>
IsSome(o) == o # <<>>
Unwrap(o) == o[1]

---------------------------------------------------------------------------
(* Bounds of the model *)

\* the variable cycles counts the poll cycles started, up to MaxCycles
MaxCycles == 2
\* largest energy_now of the single-cycle specification
MaxWideNow == 120

I32Max == 2147483647

---------------------------------------------------------------------------
(* Settings::validate *)

PercentRangeOk(v) == 0 <= v /\ v <= 100

RangeError(opt, hi) == [kind |-> "RangeError", name |-> opt, ref |-> "", hi |-> hi]
OrderError == [kind |-> "WarningNotAboveCritical", name |-> "warning", ref |-> "critical", hi |-> 0]
NotGreater(v, g) == [kind |-> "NotGreater", name |-> v, ref |-> g, hi |-> 0]
Panic == [kind |-> "Panic", name |-> "", ref |-> "", hi |-> 0]
Ok == [kind |-> "Ok", name |-> "", ref |-> "", hi |-> 0]

\* .filter_map(|(name, opt)| opt.map(|value| (name, value)))
RECURSIVE FilterMap(_)
FilterMap(pairs) ==
    IF pairs = <<>> THEN <<>>
    ELSE LET p == Head(pairs)
         IN  IF IsSome(p[2])
             THEN <<[name |-> p[1], value |-> Unwrap(p[2])]>> \o FilterMap(Tail(pairs))
             ELSE FilterMap(Tail(pairs))

\* the scan with `>` in place of `>=`
LevelGe_Strict(v, greatest) == v.value > greatest.value

LevelGe(v, greatest) == v.value >= greatest.value

\* for v in vals { if v.1 >= greatest.1 { greatest = v } else { return Err } }
RECURSIVE Scan(_, _)
Scan(greatest, rest) ==
    IF rest = <<>> THEN Ok
    ELSE LET v == Head(rest)
         IN  IF LevelGe(v, greatest)
             THEN Scan(v, Tail(rest))
             ELSE NotGreater(v.name, greatest.name)

ScanOrder(s) ==
    <<<<"danger", s.danger>>, <<"critical", s.critical>>,
      <<"warning", s.warning>>, <<"full", s.full>>>>

MonotonicCheck(s) ==
    LET vals == FilterMap(ScanOrder(s))
    IN  IF vals = <<>> THEN Panic      \* vals.next().unwrap() on an empty iterator
        ELSE Scan(Head(vals), Tail(vals))

WarningAboveCritical(warning, critical) == ~(warning <= critical)

RangeChecked(s) ==
    <<<<"w", s.warning>>, <<"c", s.critical>>, <<"f", s.full>>>>

RECURSIVE FirstOutOfRange(_)
FirstOutOfRange(pairs) ==
    IF pairs = <<>> THEN None
    ELSE LET p == Head(pairs)
         IN  IF IsSome(p[2]) /\ ~PercentRangeOk(Unwrap(p[2]))
             THEN Some(p[1])
             ELSE FirstOutOfRange(Tail(pairs))

validate(s) ==
    LET bad == FirstOutOfRange(RangeChecked(s))
    IN  IF IsSome(bad) THEN RangeError(Unwrap(bad), 100)
        ELSE IF s.sleep_interval < 0 THEN RangeError("m", I32Max \div 1000)
        ELSE IF IsSome(s.warning) /\ IsSome(s.critical)
                /\ ~WarningAboveCritical(Unwrap(s.warning), Unwrap(s.critical))
             THEN OrderError
        ELSE MonotonicCheck(s)

---------------------------------------------------------------------------
(* Battery and the aggregate of main(), lines 433-445 *)

BatteryStatus == {"Unknown", "Charging", "Discharging", "NotCharging", "Full"}

\* Battery::new: status Discharging, both energies 0
NewBattery(name) ==
    [name |-> name, status |-> "Discharging", energy_full |-> 0, energy_now |-> 0]

\* .reduce(|accum, item| (accum.0 + item.0, accum.1 + item.1)): the sums are
\* sums of integer-valued doubles far below 2^53, hence exact.
RECURSIVE SumNow(_)
SumNow(bs) == IF bs = <<>> THEN 0 ELSE Head(bs).energy_now + SumNow(Tail(bs))

RECURSIVE SumFull(_)
SumFull(bs) == IF bs = <<>> THEN 0 ELSE Head(bs).energy_full + SumFull(Tail(bs))

\* The double a / b for integers 0 < a, 0 < b: the operands scaled by powers
\* of two so that 1 <= a/b < 2, with the binary exponent e of the quotient.
RECURSIVE Normalise(_, _, _)
Normalise(a, b, e) ==
    IF a < b THEN Normalise(2 * a, b, e - 1)
    ELSE IF a >= 2 * b THEN Normalise(a, 2 * b, e + 1)
    ELSE [a |-> a, b |-> b, e |-> e]

\* Long division: the n further mantissa bits of a/b after the leading one;
\* the remainder and the last bit produced.
RECURSIVE Mantissa(_, _, _, _)
Mantissa(r, b, lsb, n) ==
    IF n = 0 THEN [rem |-> r, lsb |-> lsb]
    ELSE IF 2 * r >= b THEN Mantissa(2 * r - b, b, 1, n - 1)
         ELSE Mantissa(2 * r, b, 0, n - 1)

MantissaBits == 52

IsPow2(n) == \E k \in 0..30 : n = 2^k

\* (a as f64 / b as f64 * 100.0) as i32 for 0 < a, 0 < b (both below 2^20).
\* q = fl(a/b) is a/b rounded to nearest-even at 53 bits; fl(q * 100) is
\* within 2^-45 of 100a/b, so it truncates to floor(100a/b) unless 100a/b is
\* an integer N and q was rounded down far enough that q * 100 rounds to the
\* double below N.
F64Percent(a, b) ==
    LET N  == (100 * a) \div b
        nz == Normalise(a, b, 0)
        m  == Mantissa(nz.a - nz.b, nz.b, 1, MantissaBits)
        roundedDown == m.rem # 0 /\ (2 * m.rem < nz.b \/ (2 * m.rem = nz.b /\ m.lsb = 0))
        d  == Normalise(N, 1, 0).e - nz.e
        \* half the gap between N and the double below it, in units of ulp(q)
        halfGap == IF IsPow2(N) THEN 2^(d - 2) ELSE 2^(d - 1)
    IN  IF (100 * a) % b # 0 THEN N
        ELSE IF roundedDown /\ 100 * m.rem > halfGap * nz.b THEN N - 1
        ELSE N

\* charge_percent = (charge.0 / charge.1 * 100.0) as i32; the cast saturates
\* and maps NaN to 0.
Percent(now, full) ==
    IF full = 0 THEN (IF now = 0 THEN 0 ELSE I32Max)
    ELSE IF now = 0 THEN 0
    ELSE F64Percent(now, full)

\* .any(|b| b.status == BatteryStatus::Discharging)
AnyDischarging(bs) == \E i \in 1..Len(bs) : bs[i].status = "Discharging"

---------------------------------------------------------------------------
(* The alert state machine of main(), lines 447-471 *)

State == {"Charging", "Discharging", "Warning", "Critical", "Danger", "Full"}

\* the candidate list with an unset level replaced by its default instead of
\* being left out
Candidates_DefaultedLevels(s) ==
    <<<<"Discharging", Some(100)>>,
      <<"Warning", IF IsSome(s.warning) THEN s.warning ELSE Some(15)>>,
      <<"Critical", IF IsSome(s.critical) THEN s.critical ELSE Some(5)>>,
      <<"Danger", IF IsSome(s.danger) THEN s.danger ELSE Some(2)>>>>

Candidates(s) ==
    <<<<"Discharging", Some(100)>>, <<"Warning", s.warning>>,
      <<"Critical", s.critical>>, <<"Danger", s.danger>>>>

Tighter_StrictBelow(pct, accum, item) == pct < item.value /\ item.value <= accum.value

Tighter_StrictlyTighter(pct, accum, item) == pct <= item.value /\ item.value < accum.value

Tighter_WidestLevel(pct, accum, item) == pct <= item.value /\ item.value >= accum.value

\* if charge_percent <= item.1 && item.1 <= accum.1 { item } else { accum }
Tighter(pct, accum, item) == pct <= item.value /\ item.value <= accum.value

RECURSIVE Reduce(_, _, _)
Reduce(pct, accum, rest) ==
    IF rest = <<>> THEN accum
    ELSE Reduce(pct,
                IF Tighter(pct, accum, Head(rest)) THEN Head(rest) ELSE accum,
                Tail(rest))

\* the reduce followed by a fallback to Danger when no level is >= pct
DischargeState_DangerFallback(s, pct) ==
    LET c == FilterMap(Candidates(s))
    IN  IF \A i \in 1..Len(c) : pct > c[i].value
        THEN "Danger"
        ELSE Reduce(pct, Head(c), Tail(c)).name

DischargeState(s, pct) ==
    LET c == FilterMap(Candidates(s))
    IN  Reduce(pct, Head(c), Tail(c)).name

ReachedFull_Strict(s, pct) == IsSome(s.full) /\ pct > Unwrap(s.full)

ReachedFull(s, pct) == IsSome(s.full) /\ pct >= Unwrap(s.full)

NewState(s, pct, disch) ==
    IF ~disch
    THEN (IF ReachedFull(s, pct) THEN "Full" ELSE "Charging")
    ELSE DischargeState(s, pct)

---------------------------------------------------------------------------
(* notify_cmd *)

\* notify_cmd with Danger sent through the popup branch when no command is set
notify_cmd_DangerPopup(s, st) ==
    IF st \in {"Warning", "Critical", "Full"} THEN "popup"
    ELSE IF st = "Danger" THEN (IF s.dangercmd THEN "command" ELSE "popup")
    ELSE "none"

\* notify_cmd with Full left to the `_ => return Ok(())` arm
notify_cmd_SilentFull(s, st) ==
    IF st \in {"Warning", "Critical"} THEN "popup"
    ELSE IF st = "Danger" /\ s.dangercmd THEN "command"
    ELSE "none"

\* The side effect of notify_cmd for a state: show a popup, spawn the danger
\* command, or nothing.
notify_cmd(s, st) ==
    IF st \in {"Warning", "Critical", "Full"} THEN "popup"
    ELSE IF st = "Danger" /\ s.dangercmd THEN "command"
    ELSE "none"

\* show() and spawn() may fail; a call that does neither returns Ok(()).
NotifyOutcomes(s, st) ==
    IF notify_cmd(s, st) = "none" THEN {TRUE} ELSE {TRUE, FALSE}

NotifyError == [kind |-> "NotifyError", name |-> "", ref |-> "", hi |-> 0]
ReadError == [kind |-> "ReadError", name |-> "", ref |-> "", hi |-> 0]
NoBatteries == [kind |-> "NoBatteriesFound", name |-> "", ref |-> "", hi |-> 0]

---------------------------------------------------------------------------
(* Inputs *)

MkSettings(w, c, d, f, interval, once, cmd) ==
    [warning |-> w, critical |-> c, danger |-> d, full |-> f,
     sleep_interval |-> interval, run_once |-> once, dangercmd |-> cmd]

\* Settings::default(): warning 15, critical 5, danger 2, full unset
DefaultSettings == MkSettings(Some(15), Some(5), Some(2), None, 60, FALSE, FALSE)

\* Threshold sets of the poll-loop specification: the defaults, the defaults
\* with -f 20, -d 5 (danger equal to critical), a set with warning and danger
\* unset, the fully unset set and a set validate rejects.
LoopThresholds ==
    { <<Some(15), Some(5), Some(2), None>>,
      <<Some(15), Some(5), Some(2), Some(20)>>,
      <<Some(15), Some(5), Some(5), None>>,
      <<None, Some(5), None, Some(20)>>,
      <<None, None, None, None>>,
      <<Some(5), Some(15), Some(2), None>> }

LoopIntervals == {0, 60}

LoopSettings ==
    { MkSettings(t[1], t[2], t[3], t[4], i, once, cmd) :
        t \in LoopThresholds, i \in LoopIntervals,
        once \in BOOLEAN, cmd \in BOOLEAN }

\* Threshold levels of the validator and single-cycle specification
WideLevels == {-1, 0, 2, 5, 15, 100, 101}
WideOptions == {None} \cup {Some(v) : v \in WideLevels}
WideIntervals == {-1, 60}

WideSettings ==
    { MkSettings(w, c, d, f, i, FALSE, FALSE) :
        w \in WideOptions, c \in WideOptions, d \in WideOptions,
        f \in WideOptions, i \in WideIntervals }

BatteryNames == <<"BAT0", "BAT1">>
\* lengths of the battery list of the poll-loop specification
LoopBatteryCounts == {1, 2}

NewBatteries(n) == [i \in 1..n |-> NewBattery(BatteryNames[i])]

MkReading(now, full, status) ==
    [energy_now |-> now, energy_full |-> full, status |-> status]

\* Per-battery readings of the poll-loop specification
LoopEnergies == {<<1, 100>>, <<4, 100>>, <<14, 100>>, <<20, 100>>, <<0, 0>>}
LoopStatus == {"Charging", "Discharging"}
LoopReading == { MkReading(e[1], e[2], st) : e \in LoopEnergies, st \in LoopStatus }
LoopReadings(n) == [1..n -> LoopReading]

\* Readings of the single-cycle specification: one battery, every percentage
WideEnergies ==
    { <<now, 100>> : now \in 0..MaxWideNow }
        \cup { <<59, 200>>, <<115, 200>>, <<117, 200>>, <<0, 0>>, <<50, 0>> }
WideStatus == {"Charging", "Discharging", "Full"}
WideReading == { MkReading(e[1], e[2], st) : e \in WideEnergies, st \in WideStatus }
WideReadings(n) == [1..n -> WideReading]

---------------------------------------------------------------------------
(* update_batteries *)

Refresh(b, r) ==
    [b EXCEPT !.energy_now = r.energy_now, !.energy_full = r.energy_full,
              !.status = r.status]

\* The attributes are read in the order energy_now, energy_full, status; when
\* read k fails (a missing file, an unparsable number or status string), the
\* attributes read before it are already stored.
RefreshBefore(b, r, k) ==
    [b EXCEPT !.energy_now = IF k > 1 THEN r.energy_now ELSE @,
              !.energy_full = IF k > 2 THEN r.energy_full ELSE @]

RefreshAll(bs, rs) == [j \in 1..Len(bs) |-> Refresh(bs[j], rs[j])]

RefreshUntil(bs, rs, i, k) ==
    [j \in 1..Len(bs) |->
        IF j < i THEN Refresh(bs[j], rs[j])
        ELSE IF j = i THEN RefreshBefore(bs[j], rs[j], k)
        ELSE bs[j]]

NoFailure == <<0, 0>>
ReadFailures(n) == {NoFailure} \cup ((1..n) \X (1..3))

---------------------------------------------------------------------------
(* Observer: the readings 20, 14, 4, 1 while discharging, from the first
   poll cycle on, and the notify_cmd invocations they caused *)

ScenarioPercents == <<20, 14, 4, 1>>
ScenarioOff == [step |-> -1, notes |-> 0]

Observe(o, pct, disch, invocations) ==
    IF /\ o.step >= 0
       /\ o.step < Len(ScenarioPercents)
       /\ disch
       /\ pct = ScenarioPercents[o.step + 1]
    THEN [step |-> o.step + 1, notes |-> o.notes + invocations]
    ELSE ScenarioOff

---------------------------------------------------------------------------
(* main() *)

\* charge_percent, discharging and new_state are declared without a value
\* (lines 424-428) and assigned in every cycle before they are read.
Unassigned == "Unassigned"

InitLocals ==
    /\ charge_percent = 0
    /\ discharging = FALSE
    /\ state = "Discharging"
    /\ new_state = Unassigned
    /\ pc = "validate"
    /\ error = Ok
    /\ notified = <<>>
    /\ cycles = 0
    /\ slept = <<>>
    /\ scen = [step |-> 0, notes |-> 0]

Init ==
    /\ settings \in LoopSettings
    /\ batteries \in {<<>>} \cup {NewBatteries(n) : n \in LoopBatteryCounts}
    /\ InitLocals

InitWide ==
    /\ settings \in WideSettings
    /\ batteries = NewBatteries(1)
    /\ InitLocals

\* let mut settings = parse_args()?.validate()?;
Validate ==
    /\ pc = "validate"
    /\ LET r == validate(settings)
       IN  /\ error' = r
           /\ pc' = IF r.kind = "Ok" THEN "find"
                    ELSE IF r.kind = "Panic" THEN "panicked"
                    ELSE "failed"
    /\ UNCHANGED <<settings, batteries, charge_percent, discharging, state,
                   new_state, notified, cycles, slept, scen>>

\* if settings.batteries.is_empty() { settings.batteries = find_batteries()? }
FindBatteries ==
    /\ pc = "find"
    /\ IF batteries = <<>>
       THEN \E n \in {0} \cup LoopBatteryCounts :
              IF n = 0
              THEN /\ batteries' = batteries
                   /\ pc' = "failed"
                   /\ error' = NoBatteries
              ELSE /\ batteries' = NewBatteries(n)
                   /\ pc' = "update"
                   /\ error' = error
       ELSE /\ batteries' = batteries
            /\ pc' = "update"
            /\ error' = error
    /\ UNCHANGED <<settings, charge_percent, discharging, state, new_state,
                   notified, cycles, slept, scen>>

\* update_batteries without the `?` at its call: the read error is dropped and
\* the cycle goes on with the batteries as far as they were refreshed
update_batteries_IgnoreError(readings) ==
    /\ pc = "update"
    /\ cycles' = IF cycles < MaxCycles THEN cycles + 1 ELSE cycles
    /\ notified' = <<>>
    /\ slept' = <<>>
    /\ \E rs \in readings, fail \in ReadFailures(Len(batteries)) :
          /\ batteries' = IF fail = NoFailure
                          THEN RefreshAll(batteries, rs)
                          ELSE RefreshUntil(batteries, rs, fail[1], fail[2])
          /\ pc' = "evaluate"
          /\ error' = IF fail = NoFailure THEN error ELSE ReadError
    /\ UNCHANGED <<settings, charge_percent, discharging, state, new_state, scen>>

\* update_batteries(&mut settings.batteries)?;
update_batteries(readings) ==
    /\ pc = "update"
    /\ cycles' = IF cycles < MaxCycles THEN cycles + 1 ELSE cycles
    /\ notified' = <<>>
    /\ slept' = <<>>
    /\ \E rs \in readings, fail \in ReadFailures(Len(batteries)) :
          IF fail = NoFailure
          THEN /\ batteries' = RefreshAll(batteries, rs)
               /\ pc' = "evaluate"
               /\ error' = error
          ELSE /\ batteries' = RefreshUntil(batteries, rs, fail[1], fail[2])
               /\ pc' = "failed"
               /\ error' = ReadError
    /\ UNCHANGED <<settings, charge_percent, discharging, state, new_state, scen>>

UpdateBatteries == update_batteries(LoopReadings(Len(batteries)))

UpdateWide == update_batteries(WideReadings(Len(batteries)))

\* the new state with a latch on the held state: Danger is kept while the
\* batteries are still discharging
Evaluate_LatchDanger ==
    /\ pc = "evaluate"
    /\ charge_percent' = Percent(SumNow(batteries), SumFull(batteries))
    /\ discharging' = AnyDischarging(batteries)
    /\ new_state' = IF state = "Danger" /\ discharging'
                    THEN "Danger"
                    ELSE NewState(settings, charge_percent', discharging')
    /\ pc' = "notify"
    /\ UNCHANGED <<settings, batteries, state, error, notified, cycles, slept, scen>>

\* lines 433-471: the aggregate, then the new state
Evaluate ==
    /\ pc = "evaluate"
    /\ charge_percent' = Percent(SumNow(batteries), SumFull(batteries))
    /\ discharging' = AnyDischarging(batteries)
    /\ new_state' = NewState(settings, charge_percent', discharging')
    /\ pc' = "notify"
    /\ UNCHANGED <<settings, batteries, state, error, notified, cycles, slept, scen>>

NotifyOnChange_EveryCycle ==
    /\ pc = "notify"
    /\ \E ok \in NotifyOutcomes(settings, new_state) :
          /\ notified' = Append(notified,
                [state |-> new_state, percent |-> charge_percent,
                 effect |-> notify_cmd(settings, new_state), ok |-> ok])
          /\ IF ok
             THEN state' = new_state /\ pc' = "sleep" /\ error' = error
             ELSE state' = state /\ pc' = "failed" /\ error' = NotifyError
    /\ scen' = Observe(scen, charge_percent, discharging, Len(notified'))
    /\ UNCHANGED <<settings, batteries, charge_percent, discharging, new_state,
                   cycles, slept>>

\* if new_state != state { notify_cmd(&settings, &new_state, charge_percent)?;
\*                         state = new_state; }
NotifyOnChange ==
    /\ pc = "notify"
    /\ IF new_state # state
       THEN \E ok \in NotifyOutcomes(settings, new_state) :
              /\ notified' = Append(notified,
                    [state |-> new_state, percent |-> charge_percent,
                     effect |-> notify_cmd(settings, new_state), ok |-> ok])
              /\ IF ok
                 THEN state' = new_state /\ pc' = "sleep" /\ error' = error
                 ELSE state' = state /\ pc' = "failed" /\ error' = NotifyError
       ELSE /\ notified' = notified
            /\ state' = state
            /\ pc' = "sleep"
            /\ error' = error
    /\ scen' = Observe(scen, charge_percent, discharging, Len(notified'))
    /\ UNCHANGED <<settings, batteries, charge_percent, discharging, new_state,
                   cycles, slept>>

\* thread::sleep(time::Duration::from_secs(settings.sleep_interval as u64)):
\* the thread blocks for that many seconds and returns when they have passed;
\* nothing else wakes it.
TimedSleep(secs) == [secs |-> secs, until |-> "timeout"]

\* if settings.run_once { break } else { thread::sleep(...) }
SleepOrBreak ==
    /\ pc = "sleep"
    /\ IF settings.run_once
       THEN pc' = "done" /\ slept' = slept
       ELSE pc' = "update" /\ slept' = Append(slept, TimedSleep(settings.sleep_interval))
    /\ UNCHANGED <<settings, batteries, charge_percent, discharging, state,
                   new_state, error, notified, cycles, scen>>

Next ==
    \/ Validate
    \/ FindBatteries
    \/ UpdateBatteries
    \/ Evaluate
    \/ NotifyOnChange
    \/ SleepOrBreak

Spec == Init /\ [][Next]_vars

\* The validator and one evaluation, over every threshold set and percentage
NextCycle ==
    \/ Validate
    \/ FindBatteries
    \/ UpdateWide
    \/ Evaluate

SpecCycle == InitWide /\ [][NextCycle]_vars

---------------------------------------------------------------------------
(* Properties *)

Thresholds(s) == <<s.warning, s.critical, s.danger, s.full>>

Validated == pc # "validate" /\ error.kind = "Ok"

\* parse_args starts from Settings::default() and only ever stores Some(..)
\* into warning, critical and danger: on the command line they are never unset.
FromCommandLine(s) == IsSome(s.warning) /\ IsSome(s.critical) /\ IsSome(s.danger)

\* The discharge-side levels with their states, as a set
DischargeLevels(s) ==
    {<<"Discharging", 100>>}
        \cup (IF IsSome(s.warning) THEN {<<"Warning", Unwrap(s.warning)>>} ELSE {})
        \cup (IF IsSome(s.critical) THEN {<<"Critical", Unwrap(s.critical)>>} ELSE {})
        \cup (IF IsSome(s.danger) THEN {<<"Danger", Unwrap(s.danger)>>} ELSE {})

Severity(st) ==
    CASE st = "Discharging" -> 0
      [] st = "Warning" -> 1
      [] st = "Critical" -> 2
      [] st = "Danger" -> 3
      [] OTHER -> -1

\* C1: in a poll cycle notify_cmd is invoked exactly once, with the new state
\* and the cycle's percentage, when the computed state differs from the held
\* state, and not at all when it equals it; no other step invokes it; a cycle
\* that completes leaves the held state equal to the computed state.
C1_StepNotifiesOnChangeOnly ==
    /\ pc = "notify" /\ new_state # state =>
          /\ Len(notified') = 1
          /\ notified'[1].state = new_state
          /\ notified'[1].percent = charge_percent
    /\ pc = "notify" /\ new_state = state => notified' = <<>>
    /\ pc = "notify" /\ pc' = "sleep" => state' = new_state
    /\ pc # "notify" => notified' = notified \/ notified' = <<>>

C1_CompletedCycleHoldsComputed ==
    pc \in {"sleep", "done"} => state = new_state /\ Len(notified) <= 1

C1_NotifyOncePerChange ==
    [][C1_StepNotifiesOnChangeOnly]_vars /\ []C1_CompletedCycleHoldsComputed

\* a second or later cycle that changed the state and notified once
C1_Witness ==
    /\ pc = "sleep"
    /\ cycles >= 2
    /\ Len(notified) = 1
    /\ notified[1].state = state
    /\ state = "Warning"

\* C2: a failed notification does not end the poll loop, and the held state
\* is still updated to the new state.
C2_NotifyFailureNonFatal ==
    (FromCommandLine(settings) /\ Len(notified) > 0 /\ ~notified[Len(notified)].ok) =>
        pc # "failed" /\ state = new_state

\* C3: while discharging, for a percentage in 0..100 and thresholds validate
\* accepted, the new state belongs to the smallest level >= the percentage
\* among Discharging@100 and the configured warning, critical and danger
\* levels, and is never Charging or Full.
C3_TightestLevelChosen ==
    (pc = "notify" /\ discharging /\ charge_percent \in 0..100) =>
        /\ new_state \notin {"Charging", "Full"}
        /\ \E c \in DischargeLevels(settings) :
              /\ c[1] = new_state
              /\ c[2] >= charge_percent
              /\ \A o \in DischargeLevels(settings) :
                    o[2] >= charge_percent => c[2] <= o[2]

\* the percentage equals the warning level and Warning is chosen
C3_Witness ==
    /\ pc = "notify"
    /\ discharging
    /\ settings.warning = Some(15)
    /\ charge_percent = 15
    /\ new_state = "Warning"

\* C4: while no battery is discharging, the new state is Full iff a full
\* threshold is configured and the percentage is >= it, and Charging
\* otherwise, whatever the percentage.
C4_FullOrCharging ==
    (pc = "notify" /\ ~discharging) =>
        /\ new_state \in {"Full", "Charging"}
        /\ new_state = "Full" <=>
              (IsSome(settings.full) /\ charge_percent >= Unwrap(settings.full))

\* the percentage equals the full threshold and Full is chosen
C4_Witness ==
    /\ pc = "notify"
    /\ ~discharging
    /\ settings.full = Some(15)
    /\ charge_percent = 15
    /\ new_state = "Full"

\* C5: while discharging, a percentage that did not rise since the previous
\* cycle never yields a less severe state; with warning 15, critical 5 and
\* danger 2 the readings 20, 14, 4, 1 yield Discharging, Warning, Critical,
\* Danger, with no notify_cmd invocation for the first reading and one at
\* each of the three crossings.
ScenarioStates == <<"Discharging", "Warning", "Critical", "Danger">>

C5_StepNeverLessSevere ==
    (/\ pc = "evaluate"
     /\ pc' = "notify"
     /\ cycles >= 2
     /\ discharging
     /\ discharging'
     /\ charge_percent' <= charge_percent)
        => Severity(new_state') >= Severity(new_state)

C5_NoLessSevereBelow ==
    (pc = "notify" /\ discharging) =>
        \A p \in 0..MaxWideNow :
            /\ p <= charge_percent =>
                  Severity(DischargeState(settings, p)) >= Severity(new_state)
            /\ p >= charge_percent =>
                  Severity(DischargeState(settings, p)) <= Severity(new_state)

C5_Scenario ==
    (/\ Thresholds(settings) = Thresholds(DefaultSettings)
     /\ scen.step >= 1
     /\ pc # "notify")
        => /\ new_state = ScenarioStates[scen.step]
           /\ scen.notes = scen.step - 1
           /\ pc # "failed" => state = new_state

C5_FallingChargeEscalates ==
    /\ [][C5_StepNeverLessSevere]_vars
    /\ []C5_NoLessSevereBelow
    /\ []C5_Scenario

\* the four readings were taken and the three crossings notified
C5_Witness ==
    /\ Thresholds(settings) = Thresholds(DefaultSettings)
    /\ scen = [step |-> 4, notes |-> 3]
    /\ pc = "sleep"
    /\ state = "Danger"

\* C6: validate fails with a range error when a configured threshold among
\* warning, critical, danger and full is outside [0,100]; after a successful
\* validate every configured threshold, danger included, is within [0,100].
C6_ValidatedThresholdsInRange ==
    (Validated /\ FromCommandLine(settings)) =>
        \A i \in 1..4 :
            IsSome(Thresholds(settings)[i]) =>
                Unwrap(Thresholds(settings)[i]) \in 0..100

AllInRange(s) ==
    \A i \in 1..4 : IsSome(Thresholds(s)[i]) => Unwrap(Thresholds(s)[i]) \in 0..100

\* C7: after a successful validate the configured thresholds are strictly
\* increasing in the order danger, critical, warning, full.
SeverityOrder(s) == <<s.danger, s.critical, s.warning, s.full>>

C7_ValidatedStrictlyIncreasing ==
    (Validated /\ FromCommandLine(settings) /\ AllInRange(settings)) =>
        \A i \in 1..4, j \in 1..4 :
            (i < j /\ IsSome(SeverityOrder(settings)[i]) /\ IsSome(SeverityOrder(settings)[j]))
                => Unwrap(SeverityOrder(settings)[i]) < Unwrap(SeverityOrder(settings)[j])

C9_ZeroFullIsError ==
    (FromCommandLine(settings) /\ SumFull(batteries) = 0)
        => pc \notin {"notify", "sleep", "done"}

\* C10: the percentage is floor(100 * sum(energy_now) / sum(energy_full)),
\* discharging holds iff some battery reports Discharging, and every
\* permutation of the battery list yields the same aggregate and new state.
ListPermutations(bs) ==
    { [i \in 1..Len(bs) |-> bs[f[i]]] : f \in Permutations(1..Len(bs)) }

C10_AggregateIsFloorOfSums ==
    (FromCommandLine(settings) /\ pc = "notify" /\ SumFull(batteries) > 0) =>
        /\ charge_percent = (100 * SumNow(batteries)) \div SumFull(batteries)
        /\ discharging = (\E i \in 1..Len(batteries) : batteries[i].status = "Discharging")
        /\ \A q \in ListPermutations(batteries) :
              /\ Percent(SumNow(q), SumFull(q)) = charge_percent
              /\ AnyDischarging(q) = discharging
              /\ NewState(settings, Percent(SumNow(q), SumFull(q)), AnyDischarging(q)) = new_state

\* ---------------------------------------------------------------------------
\* C11. When the read of any attribute of any battery fails in a poll cycle,
\* that cycle computes no aggregate, changes no alert state and fires no
\* notification: the step that meets the failure leaves charge_percent,
\* discharging, new_state and state as they were, no notifier has run in the
\* cycle, and the process stops there with the read error; no step follows,
\* so no later cycle runs.  The aggregate and the new state are only ever
\* computed, and the notifier only ever reached, while no read has failed.
C11_ReadFailureStep ==
    (error'.kind = "ReadError" /\ error.kind # "ReadError")
        => /\ pc = "update" /\ pc' = "failed"
           /\ UNCHANGED <<charge_percent, discharging, new_state, state>>
           /\ notified' = <<>>

C11_ReadFailureAbortsCycle ==
    /\ [][C11_ReadFailureStep]_vars
    /\ [][pc # "failed"]_vars
    /\ [](pc \in {"evaluate", "notify", "sleep", "done"} => error.kind = "Ok")
    /\ [](error.kind = "ReadError" => pc = "failed" /\ notified = <<>>)

\* a later cycle fails half way through its second battery: the first battery
\* is refreshed, the alert state of the earlier cycle is still held
C11_Witness ==
    /\ pc = "failed" /\ error = ReadError
    /\ cycles >= 2
    /\ state = "Critical"
    /\ Len(batteries) = 2
    /\ batteries[1].energy_now = 20
    /\ batteries[2].energy_now = 1
    /\ charge_percent = 4

\* ---------------------------------------------------------------------------
\* C12. In run-once mode, when the reads of the batteries succeed, the loop
\* performs exactly one poll cycle (one read of all batteries, at most one
\* notifier invocation, no sleep) and then returns normally: once the cycle
\* has been started the run-once process never ends in a failure other than
\* a read failure.  In continuous mode the loop never terminates on its own
\* and every cycle is followed by one sleep of the configured interval before
\* the next read.
C12_Started == pc \notin {"validate", "find"} /\ cycles >= 1

C12_RunOnceReturnsNormally ==
    (settings.run_once /\ FromCommandLine(settings) /\ C12_Started /\ pc = "failed")
        => error.kind = "ReadError"

C12_RunOnceOneCycle ==
    (settings.run_once /\ C12_Started)
        => /\ cycles = 1
           /\ Len(notified) <= 1
           /\ slept = <<>>
           /\ pc \in {"evaluate", "notify", "sleep", "done", "failed"}

C12_ContinuousSleepsBetweenCycles ==
    (~settings.run_once)
        => /\ pc # "done"
           /\ (pc = "update" /\ cycles >= 1)
                 => slept = <<TimedSleep(settings.sleep_interval)>>
           /\ (pc \in {"evaluate", "notify", "sleep"}) => slept = <<>>

C12_RunOnceAndContinuous ==
    /\ C12_RunOnceReturnsNormally
    /\ C12_RunOnceOneCycle
    /\ C12_ContinuousSleepsBetweenCycles

\* ---------------------------------------------------------------------------
\* C13. In every reachable state of the monitor the held alert state, and the
\* state computed for the cycle, is Warning, Critical, Danger or Full only if
\* the threshold of that state is configured: a state whose threshold is unset
\* is never entered, whatever the sequence of battery readings.
ThresholdOf(s, st) ==
    CASE st = "Warning" -> s.warning
      [] st = "Critical" -> s.critical
      [] st = "Danger" -> s.danger
      [] st = "Full" -> s.full

C13_Configured(s, st) ==
    st \in {"Warning", "Critical", "Danger", "Full"} => IsSome(ThresholdOf(s, st))

C13_UnsetStateNeverEntered ==
    /\ C13_Configured(settings, state)
    /\ C13_Configured(settings, new_state)

\* with warning and danger unset, a second cycle at 14 % discharging holds
\* Discharging, and the alert state entered before it was Critical
C13_Witness ==
    /\ settings.warning = None /\ settings.danger = None
    /\ IsSome(settings.critical)
    /\ pc = "notify" /\ cycles >= 2
    /\ state = "Critical"
    /\ discharging /\ charge_percent = 14
    /\ new_state = "Discharging"

\* ---------------------------------------------------------------------------
\* C14. On a transition into Danger the notifier runs once and its effect is
\* the spawn of the danger command when one is configured and nothing at all
\* otherwise, never a popup; in a cycle that computes Danger while Danger is
\* already held the notifier does not run, so the command is not spawned again
\* while the state stays Danger.
C14_DangerStep ==
    (pc = "notify" /\ new_state = "Danger")
        => IF state # "Danger"
           THEN /\ Len(notified') = 1
                /\ notified'[1].state = "Danger"
                /\ notified'[1].effect =
                      (IF settings.dangercmd THEN "command" ELSE "none")
           ELSE /\ notified' = <<>>
                /\ state' = "Danger"

C14_DangerCommandOncePerEntry ==
    /\ [][C14_DangerStep]_vars
    /\ [](\A i \in 1..Len(notified) :
             /\ notified[i].state = "Danger" => notified[i].effect # "popup"
             /\ notified[i].effect = "command"
                   => notified[i].state = "Danger" /\ settings.dangercmd)

\* Danger was entered in an earlier cycle with the command spawned; the next
\* cycle computes Danger again and has spawned nothing
C14_Witness ==
    /\ settings.dangercmd
    /\ pc = "sleep" /\ cycles >= 2
    /\ state = "Danger" /\ new_state = "Danger"
    /\ notified = <<>>

\* ---------------------------------------------------------------------------
\* C15. For thresholds in 0..100 and a non-negative interval, validate returns
\* an error exactly when (a) warning and critical are both set and
\* warning <= critical, or (b) in the order danger, critical, warning, full
\* some configured level is smaller than the configured level before it.
\* Equal adjacent levels other than warning/critical are accepted: with at
\* least one level configured and neither (a) nor (b), validate returns Ok.
\* The error of case (b) names the first decreasing level and the configured
\* level it was compared against; case (a) is reported first.
LevelNames == <<"danger", "critical", "warning", "full">>

\* i and j are configured levels with no configured level between them
C15_Adjacent(s, i, j) ==
    /\ i < j
    /\ IsSome(SeverityOrder(s)[i]) /\ IsSome(SeverityOrder(s)[j])
    /\ \A k \in (i + 1)..(j - 1) : ~IsSome(SeverityOrder(s)[k])

C15_Decreases(s, i, j) ==
    C15_Adjacent(s, i, j) /\ Unwrap(SeverityOrder(s)[j]) < Unwrap(SeverityOrder(s)[i])

C15_CaseA(s) ==
    IsSome(s.warning) /\ IsSome(s.critical) /\ Unwrap(s.warning) <= Unwrap(s.critical)

C15_CaseB(s) == \E i \in 1..4, j \in 1..4 : C15_Decreases(s, i, j)

C15_JustValidated == pc \in {"find", "failed", "panicked"} /\ cycles = 0

C15_ValidateFailsExactlyOnOrder ==
    (C15_JustValidated /\ AllInRange(settings) /\ settings.sleep_interval >= 0) =>
        /\ error.kind \in {"WarningNotAboveCritical", "NotGreater"}
              <=> (C15_CaseA(settings) \/ C15_CaseB(settings))
        /\ error.kind = "WarningNotAboveCritical" <=> C15_CaseA(settings)
        /\ (\E i \in 1..4 : IsSome(SeverityOrder(settings)[i]))
              => (error.kind = "Ok"
                     <=> ~(C15_CaseA(settings) \/ C15_CaseB(settings)))
        /\ error.kind = "NotGreater" =>
              \E i \in 1..4, j \in 1..4 :
                  /\ C15_Decreases(settings, i, j)
                  /\ error.name = LevelNames[j] /\ error.ref = LevelNames[i]
                  /\ \A m \in 1..4, n \in 1..(j - 1) : ~C15_Decreases(settings, m, n)

\* danger = critical is let through by the scan, which then stops at full
\* below warning and names the two
C15_Witness ==
    /\ C15_JustValidated
    /\ AllInRange(settings) /\ settings.sleep_interval >= 0
    /\ IsSome(settings.danger) /\ settings.danger = settings.critical
    /\ error = NotGreater("full", "warning")

\* ---------------------------------------------------------------------------
\* C16. When discharging and two or more candidate levels are numerically
\* equal and are together the tightest level >= the percentage (danger =
\* critical, or warning = 100 against Discharging at 100), the new state is
\* the most severe of the tied states, with severity
\* Danger > Critical > Warning > Discharging.
C16_AtOrAbove(s, pct) == {c \in DischargeLevels(s) : c[2] >= pct}

C16_Tied(s, pct) ==
    {c \in C16_AtOrAbove(s, pct) : \A o \in C16_AtOrAbove(s, pct) : c[2] <= o[2]}

C16_TieGoesToMoreSevere ==
    (pc = "notify" /\ discharging /\ Cardinality(C16_Tied(settings, charge_percent)) >= 2)
        => /\ \E c \in C16_Tied(settings, charge_percent) : new_state = c[1]
           /\ \A c \in C16_Tied(settings, charge_percent) :
                 Severity(new_state) >= Severity(c[1])

\* danger = critical = 5 at 5 %: Danger, not Critical
C16_Witness ==
    /\ pc = "notify" /\ discharging
    /\ FromCommandLine(settings)
    /\ settings.danger = Some(5) /\ settings.critical = Some(5)
    /\ charge_percent = 5
    /\ Cardinality(C16_Tied(settings, charge_percent)) = 2
    /\ new_state = "Danger"

\* ---------------------------------------------------------------------------
\* C17. The case: discharging, and the percentage exceeds every candidate
\* level including the 100 of Discharging (energy_now > energy_full is not
\* rejected, and a zero energy_full gives i32::MAX).
C17_ExceedsEveryLevel ==
    /\ pc = "notify" /\ discharging
    /\ \A c \in DischargeLevels(settings) : charge_percent > c[2]

\* C17 as stated: in that case the new state falls back to Danger.
C17_OverfullFallsBackToDanger ==
    (/\ C17_ExceedsEveryLevel
     /\ FromCommandLine(settings) /\ AllInRange(settings)
     /\ SumFull(batteries) > 0)
        => new_state = "Danger"

\* C17 as the code has it: in that case no candidate replaces the initial
\* accumulator of the reduce and the new state is Discharging.
C17_OverfullStaysDischarging ==
    C17_ExceedsEveryLevel => new_state = "Discharging"

\* 101 % while discharging, default thresholds
C17_Witness ==
    /\ C17_ExceedsEveryLevel
    /\ FromCommandLine(settings)
    /\ charge_percent = 101
    /\ SumNow(batteries) > SumFull(batteries)
    /\ new_state = "Discharging"

\* ---------------------------------------------------------------------------
\* C18. The state computed in a cycle depends only on that cycle's aggregate
\* (percentage, discharging) and the thresholds, never on the held state: it
\* is the value of C18_StateFor, which has no other argument, whatever state
\* is held, and a completed cycle holds it.  With all four thresholds
\* configured in 0..100 and strictly ordered, for every held state s and
\* every other state t some single reading of the batteries computes t, so
\* one cycle takes the monitor from s to t.
C18_StateFor(s, pct, disch) ==
    IF ~disch
    THEN (IF IsSome(s.full) /\ pct >= Unwrap(s.full) THEN "Full" ELSE "Charging")
    ELSE IF C16_Tied(s, pct) = {} THEN "Discharging"
    ELSE CHOOSE st \in {c[1] : c \in C16_Tied(s, pct)} :
             \A c \in C16_Tied(s, pct) : Severity(st) >= Severity(c[1])

C18_AllFourStrict(s) ==
    /\ \A i \in 1..4 : IsSome(SeverityOrder(s)[i])
    /\ AllInRange(s)
    /\ \A i \in 1..3 : Unwrap(SeverityOrder(s)[i]) < Unwrap(SeverityOrder(s)[i + 1])

\* the state a cycle computes when update_batteries reads rs
C18_StateAfterReading(rs) ==
    LET bs == RefreshAll(batteries, rs)
    IN  NewState(settings, Percent(SumNow(bs), SumFull(bs)), AnyDischarging(bs))

C18_EveryStateOneReadingAway ==
    (pc = "update" /\ C18_AllFourStrict(settings)) =>
        \A t \in State \ {state} :
            \E rs \in LoopReadings(Len(batteries)) : C18_StateAfterReading(rs) = t

C18_CompletedCycleStep ==
    (pc = "notify" /\ pc' = "sleep") => state' = new_state

C18_StateFromReadingOnly ==
    /\ [](pc = "notify" => new_state = C18_StateFor(settings, charge_percent, discharging))
    /\ [][C18_CompletedCycleStep]_vars
    /\ []C18_EveryStateOneReadingAway

\* Danger is held and the cycle's reading, charging at 20 %, computes Full
C18_Witness ==
    /\ C18_AllFourStrict(settings)
    /\ pc = "notify" /\ cycles >= 2
    /\ state = "Danger"
    /\ ~discharging /\ charge_percent = 20
    /\ new_state = "Full"

\* ---------------------------------------------------------------------------
\* C19 as stated: a transition into any state other than Danger always
\* produces a popup, and Danger with no danger command is the only state
\* whose entry has no side effect at all.
C19_OnlyDangerMayBeSilent ==
    (FromCommandLine(settings) /\ SumFull(batteries) > 0) =>
        \A i \in 1..Len(notified) :
            /\ notified[i].state # "Danger" => notified[i].effect = "popup"
            /\ notified[i].effect = "none"
                  => notified[i].state = "Danger" /\ ~settings.dangercmd

\* C19 as the code has it: every transition calls the notifier once; the call
\* shows a popup exactly for Warning, Critical and Full, and has no side
\* effect at all exactly for Charging, Discharging and Danger with no danger
\* command configured.
C19_TransitionStep ==
    (pc = "notify" /\ new_state # state)
        => Len(notified') = 1 /\ notified'[1].state = new_state

C19_PopupStates == {"Warning", "Critical", "Full"}

C19_PopupForAlertsSilentOtherwise ==
    /\ [][C19_TransitionStep]_vars
    /\ [](\A i \in 1..Len(notified) :
             /\ notified[i].effect = "popup" <=> notified[i].state \in C19_PopupStates
             /\ notified[i].effect = "none"
                   <=> \/ notified[i].state \in {"Charging", "Discharging"}
                       \/ notified[i].state = "Danger" /\ ~settings.dangercmd)

\* the charger is plugged in during a warning: Charging is entered and held
\* with nothing shown and nothing spawned
C19_Witness ==
    /\ pc = "sleep" /\ cycles >= 2
    /\ FromCommandLine(settings)
    /\ state = "Charging"
    /\ Len(notified) = 1
    /\ notified[1].state = "Charging"
    /\ notified[1].effect = "none"

\* ---------------------------------------------------------------------------
\* C20. With poll interval 0 in continuous mode, after a completed cycle the
\* loop performs no further cycle until an external wake-up occurs, and each
\* wake-up is followed by exactly one cycle: whenever the loop is about to
\* read the batteries again, the wait that came before the read was a single
\* wait, and it was ended by a wake-up and not by the timer.
C20_ZeroIntervalWaitsForWakeUp ==
    (/\ ~settings.run_once /\ settings.sleep_interval = 0
     /\ FromCommandLine(settings)
     /\ pc = "update" /\ cycles >= 1)
        => /\ Len(slept) = 1
           /\ slept[1].until = "wakeup"

====
